---- MODULE Spec2Model ----
(***************************************************************************)
(* Resilience core of the Vertex AI prediction client                      *)
(* (src/vertex-ai/python/prediction_client.py): the CircuitBreaker state   *)
(* machine, the tenacity @retry loop around PredictionClient.predict, and  *)
(* the operations built on predict (predict_batch, health_check).          *)
(*                                                                         *)
(* One caller thread runs one operation at a time.  A logical predict call *)
(* is a loop of attempts; every attempt goes through CircuitBreaker.call,  *)
(* which either rejects or invokes the remote prediction service           *)
(* (self.client.predict, the RemoteInvoker).  Time is a discrete clock in  *)
(* seconds that the environment advances.                                  *)
(***************************************************************************)
EXTENDS Integers, Sequences, FiniteSets, TLC

\* ---------------------------------------------------------------- bounds
MaxTime == 6
MaxCount == 3
MaxThreshold == 2
MaxTimeout == 2
MaxInstances == 3
MaxBatchSize == 2
MaxTasks == 3

\* ------------------------------------------------------ program constants
\* stop_after_attempt(3)
MaxAttempts == 3
\* wait_exponential(multiplier=1, min=1, max=10)
WaitMultiplier == 1
WaitMin == 1
WaitMax == 10
WaitExpBase == 2
\* self.last_failure_time = None
NoTime == -1

CLOSED == "closed"
OPEN == "open"
HALF_OPEN == "half_open"

Callers == {"t1", "t2"}
MainCaller == "t1"

VARIABLES
    \* CircuitBreaker fields
    state, failure_count, last_failure_time, failure_threshold, recovery_timeout,
    \* time.time()
    clock,
    \* per caller: position, running operation, tenacity attempt_number,
    \* normalized instances of the running predict, end of the backoff sleep,
    \* predict_batch locals, what the operation gave its caller
    pc, op, attempt, instances, wake, batch, outcome,
    \* history: the latest CircuitBreaker.call of each caller, per-predict
    \* counters, chunks predict_batch submitted, failures since last success,
    \* time the latest HalfOpen trial was let through
    lastCall, stats, issued, streak, trial_at,
    \* VertexAIClient.predict_batch_parallel: position, batch_instances, the
    \* predict_async tasks, what it gave its caller, the order tasks finished in
    ppc, pbatches, tasks, presult, porder

vars == <<state, failure_count, last_failure_time, failure_threshold, recovery_timeout,
          clock, pc, op, attempt, instances, wake, batch, outcome,
          lastCall, stats, issued, streak, trial_at, ppc, pbatches, tasks, presult, porder>>

clientVars == <<state, failure_count, last_failure_time, failure_threshold,
                recovery_timeout, clock, pc, op, attempt, instances, wake, batch,
                outcome, lastCall, stats, issued, streak, trial_at>>
parVars == <<ppc, pbatches, tasks, presult, porder>>

breakerVars == <<state, failure_count, last_failure_time>>
configVars == <<failure_threshold, recovery_timeout>>

\* ------------------------------------------------------------ exceptions
Exc(kind, msg) == [kind |-> kind, msg |-> msg]
\* tenacity.RetryError(last_attempt)
RetryError(r) == [kind |-> "RetryError", last_attempt |-> r]

Ret(v) == [tag |-> "return", value |-> v]
Raise(e) == [tag |-> "raise", exc |-> e]
NoOutcome == [tag |-> "none"]

Ok(v) == [ok |-> TRUE, value |-> v]
Failed(e) == [ok |-> FALSE, exc |-> e]

\* ----------------------------------------------- RemoteInvoker fault text
\* A fault message is a sequence of words; "in" is substring search, modelled
\* word by word.
FaultMessages ==
    { <<"Quota", "exceeded">>, <<"429">>, <<"503">>, <<"UNAVAILABLE">>,
      <<"deadline">>, <<"QUOTA", "503">> }

\* str.lower()
Lower(w) ==
    CASE w \in {"Quota", "QUOTA"} -> "quota"
      [] w \in {"UNAVAILABLE", "Unavailable"} -> "unavailable"
      [] w = "OPEN" -> "open"
      [] w = "Circuit" -> "circuit"
      [] w = "Model" -> "model"
      [] w = "Prediction" -> "prediction"
      [] OTHER -> w

LowerMsg(m) == [i \in 1..Len(m) |-> Lower(m[i])]

\* word in msg
Contains(m, w) == \E i \in 1..Len(m) : m[i] = w

\* mutant of ClassifyFault: the 503/unavailable test comes first
ClassifyFault_UnavailableFirst(error_msg) ==
    IF Contains(error_msg, "503") \/ Contains(LowerMsg(error_msg), "unavailable")
    THEN Exc("ModelUnavailableError", <<"Model", "unavailable:">> \o error_msg)
    ELSE IF Contains(LowerMsg(error_msg), "quota") \/ Contains(error_msg, "429")
    THEN Exc("QuotaExceededError", <<"Quota", "exceeded:">> \o error_msg)
    ELSE Exc("PredictionError", <<"Prediction", "failed:">> \o error_msg)

\* the except branch of _make_prediction_request
ClassifyFault(error_msg) ==
    IF Contains(LowerMsg(error_msg), "quota") \/ Contains(error_msg, "429")
    THEN Exc("QuotaExceededError", <<"Quota", "exceeded:">> \o error_msg)
    ELSE IF Contains(error_msg, "503") \/ Contains(LowerMsg(error_msg), "unavailable")
    THEN Exc("ModelUnavailableError", <<"Model", "unavailable:">> \o error_msg)
    ELSE Exc("PredictionError", <<"Prediction", "failed:">> \o error_msg)

\* raise ModelUnavailableError("Circuit breaker is OPEN")
BreakerOpenError == Exc("ModelUnavailableError", <<"Circuit", "breaker", "is", "OPEN">>)


Min(a, b) == IF a <= b THEN a ELSE b
Max(a, b) == IF a >= b THEN a ELSE b

\* --------------------------------------------------------- CircuitBreaker
\* mutant of ShouldAttemptReset: a reset only at the very end of the timeout
ShouldAttemptReset_Exact ==
    /\ last_failure_time # NoTime
    /\ clock - last_failure_time = recovery_timeout

\* mutant of ShouldAttemptReset: the boundary elapsed = recovery_timeout excluded
ShouldAttemptReset_Strict ==
    /\ last_failure_time # NoTime
    /\ clock - last_failure_time > recovery_timeout

\* CircuitBreaker._should_attempt_reset
ShouldAttemptReset ==
    /\ last_failure_time # NoTime
    /\ clock - last_failure_time >= recovery_timeout

\* CircuitBreaker.call, the gate before the wrapped call: the call is rejected
GateRejects == state = OPEN /\ ~ShouldAttemptReset

\* CircuitBreaker.call, the gate before the wrapped call: the state it leaves
GateState == IF state = OPEN /\ ShouldAttemptReset THEN HALF_OPEN ELSE state

\* mutant of OnReject: a rejection is recorded as the latest failure
OnReject_Stamp ==
    /\ last_failure_time' = clock
    /\ UNCHANGED <<state, failure_count>>

\* CircuitBreaker.call, the else branch of the gate: raise, nothing assigned
OnReject == UNCHANGED breakerVars

\* mutant of OnSuccess: a success does not close the breaker
OnSuccess_KeepState ==
    /\ failure_count' = 0
    /\ UNCHANGED <<state, last_failure_time>>

\* mutant of OnSuccess: the failure counter is not reset
OnSuccess_KeepCount ==
    /\ state' = CLOSED
    /\ UNCHANGED <<failure_count, last_failure_time>>

\* CircuitBreaker._on_success
OnSuccess ==
    /\ failure_count' = 0
    /\ state' = CLOSED
    /\ UNCHANGED last_failure_time

\* mutant of OnFailure: the threshold test is > instead of >=
OnFailure_Late ==
    /\ failure_count' = failure_count + 1
    /\ last_failure_time' = clock
    /\ state' = IF failure_count + 1 > failure_threshold THEN OPEN ELSE state

\* mutant of OnFailure: a failed trial keeps the time of the earlier failure
OnFailure_KeepWindow ==
    /\ failure_count' = failure_count + 1
    /\ last_failure_time' = IF state = HALF_OPEN THEN last_failure_time ELSE clock
    /\ state' = IF failure_count + 1 >= failure_threshold THEN OPEN ELSE state

\* mutant of OnFailure: the time of the failure is not recorded
OnFailure_NoStamp ==
    /\ failure_count' = failure_count + 1
    /\ UNCHANGED last_failure_time
    /\ state' = IF failure_count + 1 >= failure_threshold THEN OPEN ELSE state

\* mutant of OnFailure: the threshold test is == instead of >=
OnFailure_Exact ==
    /\ failure_count' = failure_count + 1
    /\ last_failure_time' = clock
    /\ state' = IF failure_count + 1 = failure_threshold THEN OPEN ELSE state

\* CircuitBreaker._on_failure
OnFailure ==
    /\ failure_count' = failure_count + 1
    /\ last_failure_time' = clock
    /\ state' = IF failure_count + 1 >= failure_threshold THEN OPEN ELSE state

\* mutant of BreakerReraise: the fault is replaced by a generic one
BreakerReraise_Wrap(e) == Exc("PredictionError", e.msg)

\* CircuitBreaker.call: except Exception as e: self._on_failure(); raise
BreakerReraise(e) == e

\* ------------------------------------------------------------- tenacity
\* retry_if_exception_type((requests.exceptions.RequestException, Exception))
RetryIf(r) == ~r.ok

\* mutant of StopAfterAttempt: one attempt too many
StopAfterAttempt_Late(n) == n > MaxAttempts

\* stop_after_attempt(3)
StopAfterAttempt(n) == n >= MaxAttempts

\* mutant of WaitExponential: the exponent is the attempt number
WaitExponential_OffByOne(n) ==
    Max(Max(0, WaitMin), Min(WaitMultiplier * WaitExpBase ^ n, WaitMax))

\* wait_exponential(multiplier=1, min=1, max=10) after attempt n
WaitExponential(n) ==
    Max(Max(0, WaitMin), Min(WaitMultiplier * WaitExpBase ^ (n - 1), WaitMax))

\* ------------------------------------------------------------ data model
InstanceIds == 1..MaxInstances
\* {"health_check": True}
HealthInstance == 0

Prefix(n) == [i \in 1..n |-> i]

DictInput(k) == [type |-> "dict", value |-> k]
ListInput(s) == [type |-> "list", value |-> s]

\* inputs of predict: a lone instance, or a list of instances
DictInputs == {DictInput(k) : k \in InstanceIds}
ListInputs == {ListInput(Prefix(n)) : n \in 1..MaxInstances}

\* mutant of Normalize: a lone instance is passed on as an empty list
Normalize_DropDict(x) == IF x.type = "dict" THEN <<>> ELSE x.value

\* if isinstance(instances, dict): instances = [instances]
Normalize(x) == IF x.type = "dict" THEN <<x.value>> ELSE x.value

Prediction(k) == [prediction_for |-> k]

\* json_format.ParseDict(inst, Value())
ParseDict(inst) == [struct_value |-> inst]

\* instances_proto = [json_format.ParseDict(inst, Value()) for inst in instances]
InstancesProto(insts) == [i \in 1..Len(insts) |-> ParseDict(insts[i])]

\* response.predictions of the remote service: one prediction message per
\* instance message of the request, in the order of the request
RemotePredictions(protos) ==
    [i \in 1..Len(protos) |-> [predicted |-> protos[i].struct_value]]

\* json_format.MessageToDict(pred)
MessageToDict(pred) == Prediction(pred.predicted)

\* mutant of ParsePredictions: the predictions are collected in reverse
ParsePredictions_Reversed(preds) ==
    [i \in 1..Len(preds) |-> MessageToDict(preds[Len(preds) + 1 - i])]

\* predictions = [json_format.MessageToDict(pred) for pred in response.predictions]
ParsePredictions(preds) == [i \in 1..Len(preds) |-> MessageToDict(preds[i])]

PredictionResponse(preds) == [predictions |-> preds]

\* _make_prediction_request when self.client.predict returns
MakePredictionRequest(insts) ==
    PredictionResponse(ParsePredictions(RemotePredictions(InstancesProto(insts))))

\* instances[i:i + batch_size]
Slice(s, i, b) == SubSeq(s, i + 1, Min(i + b, Len(s)))

NoBatch == [instances |-> <<>>, batch_size |-> 1, i |-> 0, responses |-> <<>>]

\* ---------------------------------------------------------------- history
NoExc == [kind |-> "none"]

NoCall ==
    [gate |-> "none", entry_state |-> CLOSED, entry_count |-> 0, elapsed |-> NoTime,
     trial |-> FALSE, result |-> "none", exc |-> NoExc]

FreshStats(fc) ==
    [invokes |-> 0, calls |-> 0, failures |-> 0, waits |-> <<>>, fc0 |-> fc,
     succeeded |-> FALSE, last_exc |-> NoExc]


\* ------------------------------------------------------------------ Init
Init ==
    /\ state = CLOSED
    /\ failure_count = 0
    /\ last_failure_time = NoTime
    /\ failure_threshold \in 1..MaxThreshold
    /\ recovery_timeout \in 1..MaxTimeout
    /\ clock = 0
    /\ pc = [c \in Callers |-> "idle"]
    /\ op = [c \in Callers |-> "none"]
    /\ attempt = [c \in Callers |-> 0]
    /\ instances = [c \in Callers |-> <<>>]
    /\ wake = [c \in Callers |-> 0]
    /\ batch = [c \in Callers |-> NoBatch]
    /\ outcome = [c \in Callers |-> NoOutcome]
    /\ lastCall = [c \in Callers |-> NoCall]
    /\ stats = [c \in Callers |-> FreshStats(0)]
    /\ issued = [c \in Callers |-> <<>>]
    /\ streak = 0
    /\ trial_at = NoTime
    /\ ppc = "idle"
    /\ pbatches = <<>>
    /\ tasks = <<>>
    /\ presult = NoOutcome
    /\ porder = <<>>

\* ------------------------------------------------- operations on predict
\* mutant of NextIndex: the loop steps one instance too far
NextIndex_Skip(i, b) == i + b + 1

\* the for loop of predict_batch: range(0, len(instances), batch_size)
NextIndex(i, b) == i + b

\* mutant of InRange: the loop also runs with the index at the end
InRange_Inclusive(i, n) == i <= n

\* the for loop of predict_batch: i is produced by range(0, n, batch_size)
InRange(i, n) == i < n

\* the chunks the loop of predict_batch submits from index i on, when no predict fails
RECURSIVE BatchChunks(_, _, _)
BatchChunks(s, b, i) ==
    IF InRange(i, Len(s)) THEN <<Slice(s, i, b)>> \o BatchChunks(s, b, NextIndex(i, b)) ELSE <<>>

\* mutant of BatchFailure: the failure is swallowed and the partial list returned
BatchFailure_Partial(o, responses) == Ret(responses)

\* predict_batch has no try/except around self.predict: what predict raises
\* leaves the loop and predict_batch, and the responses so far are dropped
BatchFailure(o, responses) == o

\* mutant of HealthCheckResult: the failure of predict is propagated
HealthCheckResult_Raise(o) == IF o.tag = "return" THEN Ret(TRUE) ELSE o

\* health_check: return True after predict, return False in except Exception
HealthCheckResult(o) == Ret(o.tag = "return")

\* One logical predict call of caller c has ended with o (a return or a raise):
\* what the operation that issued it does next.  s1 is the call's history.
PredictDone(c, o, s1) ==
    LET b == batch[c]
        responses == Append(b.responses, o.value)
        i == NextIndex(b.i, b.batch_size)
        finish(res) ==
            /\ outcome' = [outcome EXCEPT ![c] = res]
            /\ pc' = [pc EXCEPT ![c] = "idle"]
            /\ stats' = [stats EXCEPT ![c] = s1]
            /\ UNCHANGED <<attempt, instances, wake, issued>>
    IN  CASE op[c] = "predict" ->
                finish(o) /\ UNCHANGED batch
          [] op[c] = "health_check" ->
                \* return True / except Exception: return False
                finish(HealthCheckResult(o)) /\ UNCHANGED batch
          [] op[c] = "predict_batch" /\ o.tag = "raise" ->
                finish(BatchFailure(o, b.responses)) /\ UNCHANGED batch
          [] op[c] = "predict_batch" /\ o.tag = "return" /\ InRange(i, Len(b.instances)) ->
                \* responses.append(response); next batch = instances[i:i + batch_size]
                /\ batch' = [batch EXCEPT ![c] = [b EXCEPT !.i = i, !.responses = responses]]
                /\ instances' = [instances EXCEPT ![c] = Slice(b.instances, i, b.batch_size)]
                /\ issued' = [issued EXCEPT ![c] = Append(@, Slice(b.instances, i, b.batch_size))]
                /\ attempt' = [attempt EXCEPT ![c] = 1]
                /\ pc' = [pc EXCEPT ![c] = "call"]
                /\ stats' = [stats EXCEPT ![c] = FreshStats(failure_count')]
                /\ UNCHANGED <<wake, outcome>>
          [] op[c] = "predict_batch" /\ o.tag = "return" /\ ~InRange(i, Len(b.instances)) ->
                \* return responses
                /\ batch' = [batch EXCEPT ![c] = [b EXCEPT !.i = i, !.responses = responses]]
                /\ finish(Ret(responses))

\* The tenacity loop after attempt number attempt[c] ended with r.
AttemptDone(c, r, s1) ==
    IF ~RetryIf(r)
    THEN PredictDone(c, Ret(r.value), s1)
    ELSE IF StopAfterAttempt(attempt[c])
    THEN PredictDone(c, Raise(RetryError(r)), s1)
    ELSE /\ pc' = [pc EXCEPT ![c] = "wait"]
         /\ wake' = [wake EXCEPT ![c] = clock + WaitExponential(attempt[c])]
         /\ stats' = [stats EXCEPT ![c] =
                        [s1 EXCEPT !.waits = Append(@, WaitExponential(attempt[c]))]]
         /\ UNCHANGED <<attempt, instances, batch, outcome, issued>>

\* ---------------------------------------------------------------- actions
\* caller c calls predict(x)
Predict(c, x) ==
    /\ pc[c] = "idle"
    /\ op' = [op EXCEPT ![c] = "predict"]
    /\ instances' = [instances EXCEPT ![c] = Normalize(x)]
    /\ attempt' = [attempt EXCEPT ![c] = 1]
    /\ pc' = [pc EXCEPT ![c] = "call"]
    /\ outcome' = [outcome EXCEPT ![c] = NoOutcome]
    /\ stats' = [stats EXCEPT ![c] = FreshStats(failure_count)]
    /\ batch' = [batch EXCEPT ![c] = NoBatch]
    /\ issued' = [issued EXCEPT ![c] = <<>>]
    /\ lastCall' = [lastCall EXCEPT ![c] = NoCall]
    /\ UNCHANGED <<parVars, breakerVars, configVars, clock, wake, streak, trial_at>>

\* caller c calls health_check()
HealthCheck(c) ==
    /\ pc[c] = "idle"
    /\ op' = [op EXCEPT ![c] = "health_check"]
    /\ instances' = [instances EXCEPT ![c] = Normalize(DictInput(HealthInstance))]
    /\ attempt' = [attempt EXCEPT ![c] = 1]
    /\ pc' = [pc EXCEPT ![c] = "call"]
    /\ outcome' = [outcome EXCEPT ![c] = NoOutcome]
    /\ stats' = [stats EXCEPT ![c] = FreshStats(failure_count)]
    /\ batch' = [batch EXCEPT ![c] = NoBatch]
    /\ issued' = [issued EXCEPT ![c] = <<>>]
    /\ lastCall' = [lastCall EXCEPT ![c] = NoCall]
    /\ UNCHANGED <<parVars, breakerVars, configVars, clock, wake, streak, trial_at>>

\* caller c calls predict_batch(insts, b)
PredictBatch(c, insts, b) ==
    /\ pc[c] = "idle"
    /\ op' = [op EXCEPT ![c] = "predict_batch"]
    /\ batch' = [batch EXCEPT ![c] =
                    [instances |-> insts, batch_size |-> b, i |-> 0, responses |-> <<>>]]
    /\ stats' = [stats EXCEPT ![c] = FreshStats(failure_count)]
    /\ IF InRange(0, Len(insts))
       THEN /\ instances' = [instances EXCEPT ![c] = Slice(insts, 0, b)]
            /\ issued' = [issued EXCEPT ![c] = <<Slice(insts, 0, b)>>]
            /\ attempt' = [attempt EXCEPT ![c] = 1]
            /\ pc' = [pc EXCEPT ![c] = "call"]
            /\ outcome' = [outcome EXCEPT ![c] = NoOutcome]
       ELSE /\ outcome' = [outcome EXCEPT ![c] = Ret(<<>>)]
            /\ issued' = [issued EXCEPT ![c] = <<>>]
            /\ UNCHANGED <<instances, attempt, pc>>
    /\ lastCall' = [lastCall EXCEPT ![c] = NoCall]
    /\ UNCHANGED <<parVars, breakerVars, configVars, clock, wake, streak, trial_at>>

\* CircuitBreaker.call up to the wrapped call: reject, or let the call through
BreakerCall(c) ==
    /\ pc[c] = "call"
    /\ LET rej == GateRejects
           st == GateState
           call == [gate |-> IF rej THEN "rejected" ELSE "passed",
                    entry_state |-> state,
                    entry_count |-> failure_count,
                    elapsed |-> IF last_failure_time = NoTime THEN NoTime
                                ELSE clock - last_failure_time,
                    trial |-> ~rej /\ st = HALF_OPEN,
                    result |-> IF rej THEN "none" ELSE "pending",
                    exc |-> IF rej THEN BreakerOpenError ELSE NoExc]
           s1 == [stats[c] EXCEPT !.calls = @ + 1]
       IN  /\ lastCall' = [lastCall EXCEPT ![c] = call]
           /\ trial_at' = IF call.trial THEN clock ELSE trial_at
           /\ IF rej
              THEN /\ OnReject
                   /\ AttemptDone(c, Failed(BreakerOpenError),
                                  [s1 EXCEPT !.failures = @ + 1, !.last_exc = BreakerOpenError])
              ELSE /\ state' = st
                   /\ UNCHANGED <<failure_count, last_failure_time>>
                   /\ pc' = [pc EXCEPT ![c] = "invoke"]
                   /\ stats' = [stats EXCEPT ![c] = [s1 EXCEPT !.invokes = @ + 1]]
                   /\ UNCHANGED <<attempt, instances, wake, batch, outcome, issued>>
    /\ UNCHANGED <<parVars, configVars, clock, op, streak>>

\* the remote call returns: _make_prediction_request returns, _on_success
InvokeOk(c) ==
    /\ pc[c] = "invoke"
    /\ OnSuccess
    /\ streak' = 0
    /\ lastCall' = [lastCall EXCEPT ![c] = [@ EXCEPT !.result = "success"]]
    /\ AttemptDone(c, Ok(MakePredictionRequest(instances[c])),
                   [stats[c] EXCEPT !.succeeded = TRUE])
    /\ UNCHANGED <<parVars, configVars, clock, op, trial_at>>

\* the remote call raises with message m: classification, _on_failure, raise
InvokeFail(c, m) ==
    /\ pc[c] = "invoke"
    /\ failure_count < MaxCount
    /\ OnFailure
    /\ streak' = streak + 1
    /\ lastCall' = [lastCall EXCEPT ![c] =
                      [@ EXCEPT !.result = "failure", !.exc = ClassifyFault(m)]]
    /\ AttemptDone(c, Failed(BreakerReraise(ClassifyFault(m))),
                   [stats[c] EXCEPT !.failures = @ + 1,
                                    !.last_exc = BreakerReraise(ClassifyFault(m))])
    /\ UNCHANGED <<parVars, configVars, clock, op, trial_at>>

\* the backoff sleep of tenacity ends: next attempt
WaitDone(c) ==
    /\ pc[c] = "wait"
    /\ clock >= wake[c]
    /\ attempt' = [attempt EXCEPT ![c] = @ + 1]
    /\ pc' = [pc EXCEPT ![c] = "call"]
    /\ wake' = [wake EXCEPT ![c] = 0]
    /\ UNCHANGED <<parVars, breakerVars, configVars, clock, op, instances, batch, outcome,
                   lastCall, stats, issued, streak, trial_at>>

\* time passes
Tick ==
    /\ clock < MaxTime
    /\ clock' = clock + 1
    /\ UNCHANGED <<parVars, breakerVars, configVars, pc, op, attempt, instances, wake, batch,
                   outcome, lastCall, stats, issued, streak, trial_at>>

BatchInputs == {Prefix(n) : n \in 0..MaxInstances}

Next ==
    \/ \E x \in DictInputs : Predict(MainCaller, x)
    \/ \E x \in ListInputs : Predict(MainCaller, x)
    \/ HealthCheck(MainCaller)
    \/ \E insts \in BatchInputs, b \in 1..MaxBatchSize : PredictBatch(MainCaller, insts, b)
    \/ BreakerCall(MainCaller)
    \/ InvokeOk(MainCaller)
    \/ \E m \in FaultMessages : InvokeFail(MainCaller, m)
    \/ WaitDone(MainCaller)
    \/ Tick

Spec == Init /\ [][Next]_vars


\* -------------------------- one client shared by two threads (no lock)
\* CircuitBreaker.call, line 106 alone: the thread reads self.state.  Nothing
\* in the class serializes the threads, so another thread can run between this
\* read and the test and write that follow it.
GateRead(c) ==
    /\ pc[c] = "call"
    /\ lastCall' = [lastCall EXCEPT ![c] =
                      [gate |-> IF state = OPEN THEN "checking" ELSE "passed",
                       entry_state |-> state,
                       entry_count |-> failure_count,
                       elapsed |-> IF last_failure_time = NoTime THEN NoTime
                                   ELSE clock - last_failure_time,
                       trial |-> FALSE,
                       result |-> IF state = OPEN THEN "none" ELSE "pending",
                       exc |-> NoExc]]
    /\ pc' = [pc EXCEPT ![c] = IF state = OPEN THEN "reset_check" ELSE "invoke"]
    /\ stats' = [stats EXCEPT ![c] =
                   [@ EXCEPT !.calls = @ + 1,
                             !.invokes = IF state = OPEN THEN @ ELSE @ + 1]]
    /\ UNCHANGED <<parVars, breakerVars, configVars, clock, op, attempt, instances, wake,
                   batch, outcome, issued, streak, trial_at>>

\* CircuitBreaker.call, lines 107-110, by a thread that read OPEN: the reset
\* test, then HALF_OPEN and on to the wrapped call, or the rejection
GateDecide(c) ==
    /\ pc[c] = "reset_check"
    /\ IF ShouldAttemptReset
       THEN /\ state' = HALF_OPEN
            /\ UNCHANGED <<failure_count, last_failure_time>>
            /\ lastCall' = [lastCall EXCEPT ![c] =
                              [@ EXCEPT !.gate = "passed", !.trial = TRUE,
                                        !.result = "pending"]]
            /\ trial_at' = clock
            /\ pc' = [pc EXCEPT ![c] = "invoke"]
            /\ stats' = [stats EXCEPT ![c] = [@ EXCEPT !.invokes = @ + 1]]
            /\ UNCHANGED <<attempt, instances, wake, batch, outcome, issued>>
       ELSE /\ OnReject
            /\ UNCHANGED trial_at
            /\ lastCall' = [lastCall EXCEPT ![c] =
                              [@ EXCEPT !.gate = "rejected", !.exc = BreakerOpenError]]
            /\ AttemptDone(c, Failed(BreakerOpenError),
                           [stats[c] EXCEPT !.failures = @ + 1,
                                            !.last_exc = BreakerOpenError])
    /\ UNCHANGED <<parVars, configVars, clock, op, streak>>

\* two threads, each making one predict call on the same client
NextConcurrent ==
    \/ \E c \in Callers : op[c] = "none" /\ Predict(c, DictInput(1))
    \/ \E c \in Callers : GateRead(c)
    \/ \E c \in Callers : GateDecide(c)
    \/ \E c \in Callers : InvokeOk(c)
    \/ \E c \in Callers, m \in {<<"503">>} : InvokeFail(c, m)
    \/ \E c \in Callers : WaitDone(c)
    \/ Tick

SpecConcurrent == Init /\ [][NextConcurrent]_vars

\* ------------------------------------------------- time without an end
\* a time stamp after the origin of the time axis has moved one second forward
Shifted(x) == IF x = NoTime THEN NoTime ELSE Max(x - 1, 0)

\* time passes, for ever: at the end of the modelled window the origin moves
\* instead of the clock, which keeps every difference the code computes
\* (time.time() - last_failure_time up to the window, the rest of a sleep)
TickForever ==
    /\ IF clock < MaxTime
       THEN /\ clock' = clock + 1
            /\ UNCHANGED <<last_failure_time, wake, trial_at>>
       ELSE /\ clock' = clock
            /\ last_failure_time' = Shifted(last_failure_time)
            /\ wake' = [c \in Callers |-> Shifted(wake[c])]
            /\ trial_at' = Shifted(trial_at)
    /\ UNCHANGED <<parVars, configVars, state, failure_count, pc, op, attempt, instances,
                   batch, outcome, lastCall, stats, issued, streak>>

\* one caller that keeps calling predict while time keeps passing
NextForever ==
    \/ Predict(MainCaller, DictInput(1))
    \/ BreakerCall(MainCaller)
    \/ InvokeOk(MainCaller)
    \/ InvokeFail(MainCaller, <<"503">>)
    \/ WaitDone(MainCaller)
    \/ TickForever

\* time advances, the caller starts a new predict when one has ended, a running
\* call takes its next step, a sleep ends, and the remote call (bounded by
\* timeout=self.timeout) returns or raises
FairForever ==
    /\ WF_vars(TickForever)
    /\ WF_vars(Predict(MainCaller, DictInput(1)))
    /\ WF_vars(BreakerCall(MainCaller))
    /\ WF_vars(WaitDone(MainCaller))
    /\ WF_vars(InvokeOk(MainCaller) \/ InvokeFail(MainCaller, <<"503">>))

SpecForever == Init /\ [][NextForever]_vars /\ FairForever

\* ------------------------------------ VertexAIClient: parallel fan-out
\* VertexAIClient.predict: prediction.predictions of endpoint.predict
EndpointPredictions(insts) == [i \in 1..Len(insts) |-> Prediction(insts[i])]

NewTask == [st |-> "created", result |-> <<>>]

\* mutant of ParallelResults: results collected in the order the tasks finished
ParallelResults_ByCompletion(ts, order) ==
    [i \in 1..Len(order) |->
        IF ts[order[i]].st = "raised" THEN <<>> ELSE ts[order[i]].result]

\* results of asyncio.gather(*tasks, return_exceptions=True), then the loop that
\* puts [] where the result is an Exception
ParallelResults(ts, order) ==
    [i \in 1..Len(ts) |-> IF ts[i].st = "raised" THEN <<>> ELSE ts[i].result]

\* predict_batch_parallel(endpoint, bs): one predict_async coroutine per batch
PredictBatchParallel(bs) ==
    /\ ppc = "idle"
    /\ ppc' = "gather"
    /\ pbatches' = bs
    /\ tasks' = [i \in 1..Len(bs) |-> NewTask]
    /\ presult' = NoOutcome
    /\ porder' = <<>>
    /\ UNCHANGED clientVars

\* predict_async of task i runs: self.predict is handed to its executor thread
TaskStart(i) ==
    /\ ppc = "gather"
    /\ i \in 1..Len(tasks)
    /\ tasks[i].st = "created"
    /\ tasks' = [tasks EXCEPT ![i].st = "running"]
    /\ UNCHANGED <<clientVars, ppc, pbatches, presult, porder>>

\* self.predict of task i returns prediction.predictions
TaskReturn(i) ==
    /\ ppc = "gather"
    /\ i \in 1..Len(tasks)
    /\ tasks[i].st = "running"
    /\ tasks' = [tasks EXCEPT ![i] =
                    [st |-> "returned", result |-> EndpointPredictions(pbatches[i])]]
    /\ porder' = Append(porder, i)
    /\ UNCHANGED <<clientVars, ppc, pbatches, presult>>

\* endpoint.predict of task i raises
TaskRaise(i, m) ==
    /\ ppc = "gather"
    /\ i \in 1..Len(tasks)
    /\ tasks[i].st = "running"
    /\ tasks' = [tasks EXCEPT ![i] = [st |-> "raised", result |-> Exc("Exception", m)]]
    /\ porder' = Append(porder, i)
    /\ UNCHANGED <<clientVars, ppc, pbatches, presult>>

\* mutant of GatherReady: gather without return_exceptions, resuming at the
\* first task that raised
GatherReady_FirstException(ts) ==
    \/ \A i \in 1..Len(ts) : ts[i].st \in {"returned", "raised"}
    \/ \E i \in 1..Len(ts) : ts[i].st = "raised"

\* asyncio.gather(*tasks, return_exceptions=True) is done when every task is
GatherReady(ts) == \A i \in 1..Len(ts) : ts[i].st \in {"returned", "raised"}

\* await asyncio.gather(...) resumes when every task is done; return successful_results
GatherDone ==
    /\ ppc = "gather"
    /\ GatherReady(tasks)
    /\ ppc' = "idle"
    /\ presult' = Ret(ParallelResults(tasks, porder))
    /\ UNCHANGED <<clientVars, pbatches, tasks, porder>>

\* batch_instances: k sub-batches, sub-batch i holding i instances
ParallelInputs == {[i \in 1..k |-> Prefix(i)] : k \in 0..MaxTasks}

TaskFaults == {<<"503">>, <<"deadline">>}

NextParallel ==
    \/ \E bs \in ParallelInputs : PredictBatchParallel(bs)
    \/ \E i \in 1..MaxTasks : TaskStart(i)
    \/ \E i \in 1..MaxTasks : TaskReturn(i)
    \/ \E i \in 1..MaxTasks, m \in TaskFaults : TaskRaise(i, m)
    \/ GatherDone

SpecParallel == Init /\ [][NextParallel]_vars

\* ================================================================ claims
\* The claims are about the caller of the single-caller specification.
t == MainCaller

\* C1: once consecutive failing calls have brought the failure counter to
\* failure_threshold the breaker is Open (HalfOpen only while its trial call is
\* in flight), and a call made then, before recovery_timeout has elapsed since
\* the last failure, is rejected without the wrapped function being invoked.
C1_OpenAtThresholdRejects ==
    /\ (failure_count >= failure_threshold /\ pc[t] # "invoke") => state = OPEN
    /\ (failure_count >= failure_threshold /\ pc[t] = "invoke") => state = HALF_OPEN
    /\ ( /\ lastCall[t].gate # "none"
         /\ lastCall[t].entry_count >= failure_threshold
         /\ lastCall[t].elapsed < recovery_timeout )
       => /\ lastCall[t].gate = "rejected"
          /\ lastCall[t].result = "none"
          /\ pc[t] # "invoke"

\* C1 witness: threshold consecutive failures happened and the next call was rejected
C1_Witness ==
    /\ lastCall[t].gate = "rejected"
    /\ lastCall[t].entry_count >= failure_threshold
    /\ streak >= failure_threshold
    /\ stats[t].invokes = 0

\* C2: a call that finds the breaker Open is rejected when the time since the
\* last failure is below recovery_timeout, and when it is recovery_timeout or
\* more (boundary included) it is let through as the HalfOpen trial: the state
\* becomes HalfOpen and the wrapped function is invoked.
C2_OpenGateByElapsed ==
    (lastCall[t].gate # "none" /\ lastCall[t].entry_state = OPEN)
    => /\ lastCall[t].elapsed # NoTime
       /\ lastCall[t].elapsed < recovery_timeout
            => lastCall[t].gate = "rejected" /\ lastCall[t].result = "none"
       /\ lastCall[t].elapsed >= recovery_timeout
            => /\ lastCall[t].gate = "passed"
               /\ lastCall[t].trial
               /\ lastCall[t].result \in {"pending", "success", "failure"}
               /\ lastCall[t].result = "pending" => (state = HALF_OPEN /\ pc[t] = "invoke")

\* C2 witness: a trial admitted exactly at the boundary, its call in flight
C2_Witness ==
    /\ lastCall[t].entry_state = OPEN
    /\ lastCall[t].elapsed = recovery_timeout
    /\ lastCall[t].trial
    /\ state = HALF_OPEN
    /\ pc[t] = "invoke"

\* C3: a failure of the HalfOpen trial call returns the breaker to Open, and the
\* failure counter after it is not smaller than before it.
C3_TrialFailureReopens ==
    (lastCall[t].trial /\ lastCall[t].result = "failure")
    => /\ state = OPEN
       /\ failure_count >= lastCall[t].entry_count
       /\ failure_count = lastCall[t].entry_count + 1

\* C3 witness: a HalfOpen trial has failed
C3_Witness ==
    /\ lastCall[t].trial
    /\ lastCall[t].entry_state = OPEN
    /\ lastCall[t].result = "failure"

\* C4: every successful wrapped call, in Closed or as the HalfOpen trial, sets the
\* failure counter to 0 and leaves the breaker Closed; the counter is the number
\* of failures since the last success, and the breaker is away from Closed only
\* after failure_threshold failures with no success between them.
C4_SuccessResets ==
    /\ lastCall[t].result = "success" => (failure_count = 0 /\ state = CLOSED)
    /\ failure_count = streak
    /\ state # CLOSED => streak >= failure_threshold

\* C4 witness: a HalfOpen trial has succeeded
C4_Witness ==
    /\ lastCall[t].trial
    /\ lastCall[t].result = "success"
    /\ lastCall[t].entry_count >= failure_threshold
    /\ failure_count = 0


\* C5 (as claimed): when every attempt of a predict call fails, what reaches
\* the caller is the last failure observed from the attempts, one of the three
\* kinds, not a synthesized error replacing or wrapping it.
C5_LastFailureSurfaces ==
    (op[t] = "predict" /\ pc[t] = "idle" /\ outcome[t].tag = "raise")
    => /\ outcome[t].exc = stats[t].last_exc
       /\ outcome[t].exc.kind \in
            {"QuotaExceededError", "ModelUnavailableError", "PredictionError"}

\* C6: one logical predict call makes at most max_attempts (3) attempts and
\* invokes the remote service at most max_attempts times (no backoff wait
\* follows the last attempt), and a successful attempt ends the call: nothing of
\* that call runs after a success.
C6_AtMostMaxAttempts ==
    /\ stats[t].invokes <= MaxAttempts
    /\ stats[t].calls <= MaxAttempts
    /\ attempt[t] <= MaxAttempts
    /\ stats[t].invokes <= stats[t].calls
    /\ pc[t] = "wait" => stats[t].calls < MaxAttempts
    /\ stats[t].succeeded => (pc[t] = "idle" /\ outcome[t].tag = "return")

\* C6 witness: a predict call that succeeded on its third and last attempt
C6_Witness ==
    /\ op[t] = "predict"
    /\ stats[t].invokes = MaxAttempts
    /\ stats[t].failures = MaxAttempts - 1
    /\ stats[t].succeeded
    /\ pc[t] = "idle"

\* C7 (as claimed): one logical predict call goes through CircuitBreaker.call
\* exactly once, and a predict whose attempts all fail raises the failure
\* counter by exactly 1.
C7_BreakerWrapsRetry ==
    (op[t] = "predict" /\ pc[t] = "idle" /\ outcome[t].tag # "none")
    => /\ stats[t].calls = 1
       /\ (outcome[t].tag = "raise" /\ stats[t].invokes >= 1)
            => failure_count = stats[t].fc0 + 1

\* C8 (as claimed): a predict call whose first pass through the breaker is
\* rejected ends there: the remote service is not invoked, and no backoff wait
\* and no further attempt follows the rejection.
C8_RejectionNotRetried ==
    (stats[t].calls = 1 /\ lastCall[t].gate = "rejected")
    => /\ pc[t] = "idle"
       /\ outcome[t].tag = "raise"
       /\ stats[t].invokes = 0
       /\ stats[t].waits = <<>>

\* C9 (as claimed): the fault of a call rejected by the Open breaker has a kind
\* of its own, different from every kind given to a fault of the remote service
\* (from the ModelUnavailable kind in particular).
C9_RejectionHasOwnKind ==
    lastCall[t].gate = "rejected"
    => lastCall[t].exc.kind \notin {ClassifyFault(m).kind : m \in FaultMessages}

\* ceil(n / b)
Ceil(n, b) == (n + b - 1) \div b

\* chunk k of ceil(n/b) chunks of list s: b instances, the last n - b*(ceil(n/b)-1)
ExpectedChunk(s, b, k) ==
    LET n == Len(s)
        size == IF k < Ceil(n, b) THEN b ELSE n - b * (Ceil(n, b) - 1)
    IN  [j \in 1..size |-> s[(k - 1) * b + j]]

RECURSIVE Concat(_)
Concat(ss) == IF ss = <<>> THEN <<>> ELSE Head(ss) \o Concat(Tail(ss))

\* the spec's example: 100 instances in batches of 32
ExampleSizes ==
    LET cs == BatchChunks(Prefix(100), 32, 0) IN [k \in 1..Len(cs) |-> Len(cs[k])]

\* C10: predict_batch submits the chunks of the input in chunk order, chunk k
\* being the k-th window of batch_size instances (the last one the remainder);
\* when it returns, it has submitted exactly ceil(n/b) chunks, their
\* concatenation is the input, and it returns one response per chunk in chunk
\* order (n = 100, b = 32: sizes 32, 32, 32, 4).
C10_BatchChunks ==
    /\ ExampleSizes = <<32, 32, 32, 4>>
    /\ op[t] = "predict_batch" =>
         LET s == batch[t].instances
             b == batch[t].batch_size
             K == Ceil(Len(s), b)
         IN  /\ Len(issued[t]) <= K
             /\ \A k \in 1..Len(issued[t]) : issued[t][k] = ExpectedChunk(s, b, k)
             /\ pc[t] # "idle" => instances[t] = issued[t][Len(issued[t])]
             /\ outcome[t].tag = "return" =>
                  /\ Len(issued[t]) = K
                  /\ Concat(issued[t]) = s
                  /\ Len(outcome[t].value) = K
                  /\ \A k \in 1..K :
                       outcome[t].value[k] = MakePredictionRequest(issued[t][k])

\* C10 witness: a batch of several chunks with a shorter last chunk has returned
C10_Witness ==
    /\ op[t] = "predict_batch"
    /\ outcome[t].tag = "return"
    /\ Len(issued[t]) >= 2
    /\ Len(issued[t][Len(issued[t])]) < batch[t].batch_size
    /\ Len(outcome[t].value) = Len(issued[t])


\* C11: predict_batch is sequential and fail-fast: a chunk is submitted only
\* when every chunk before it has returned its response, and when the predict of
\* a chunk fails no later chunk is submitted, predict_batch raises that failure
\* of predict, and no list of responses is returned.
C11_BatchFailFast ==
    op[t] = "predict_batch" =>
        /\ pc[t] # "idle" => Len(batch[t].responses) = Len(issued[t]) - 1
        /\ (pc[t] = "idle" /\ ~stats[t].succeeded /\ issued[t] # <<>>) =>
             /\ outcome[t].tag = "raise"
             /\ outcome[t].exc.kind = "RetryError"
             /\ outcome[t].exc.last_attempt = Failed(stats[t].last_exc)
             /\ Len(batch[t].responses) = Len(issued[t]) - 1
             /\ batch[t].i = (Len(issued[t]) - 1) * batch[t].batch_size
        /\ outcome[t].tag = "return" =>
             /\ Len(outcome[t].value) = Len(issued[t])
             /\ issued[t] # <<>> => stats[t].succeeded

\* C11 witness: the second of three chunks failed, and the third was never submitted
C11_Witness ==
    /\ op[t] = "predict_batch"
    /\ pc[t] = "idle"
    /\ outcome[t].tag = "raise"
    /\ Len(issued[t]) = 2
    /\ Len(batch[t].responses) = 1
    /\ Len(BatchChunks(batch[t].instances, batch[t].batch_size, 0)) = 3


\* C12: predict_batch_parallel returns, for k sub-batches, a list of exactly k
\* slots, slot i holding the predictions of input list i when its call
\* succeeded and an empty list when it failed, whatever the order the calls
\* finished in; it returns (never raises) whatever sub-batches fail, and every
\* sub-batch call runs to its own end.
C12_ParallelSlots ==
    presult.tag # "none" =>
        /\ presult.tag = "return"
        /\ Len(presult.value) = Len(pbatches)
        /\ \A i \in 1..Len(pbatches) :
             /\ tasks[i].st \in {"returned", "raised"}
             /\ tasks[i].st = "returned" =>
                  presult.value[i] = [j \in 1..Len(pbatches[i]) |-> Prediction(pbatches[i][j])]
             /\ tasks[i].st = "raised" => presult.value[i] = <<>>

\* C12 witness: three sub-batches, the second failed, and the third finished first
C12_Witness ==
    /\ presult.tag = "return"
    /\ Len(pbatches) = 3
    /\ tasks[1].st = "returned"
    /\ tasks[2].st = "raised"
    /\ tasks[3].st = "returned"
    /\ porder[1] = 3
    /\ presult.value[2] = <<>>
    /\ presult.value[3] # <<>>


\* C13 (as claimed): with one breaker shared by concurrent callers, at most one
\* HalfOpen trial call is in flight at any time: two callers never both go from
\* Open to the wrapped call.
C13_OneTrialInFlight ==
    Cardinality({c \in Callers : pc[c] = "invoke" /\ lastCall[c].trial}) <= 1

\* C14: health_check issues one predict call with the single synthetic
\* instance, never raises, and returns TRUE exactly when that predict succeeded
\* and FALSE when it failed (remote fault, retries exhausted, breaker open).
C14_HealthCheckBoolean ==
    op[t] = "health_check" =>
        /\ instances[t] = <<HealthInstance>>
        /\ issued[t] = <<>> /\ batch[t] = NoBatch
        /\ stats[t].calls <= MaxAttempts
        /\ pc[t] = "idle" =>
             /\ outcome[t].tag = "return"
             /\ outcome[t].value \in BOOLEAN
             /\ outcome[t].value = stats[t].succeeded
             /\ outcome[t].value = FALSE =>
                   /\ stats[t].calls = MaxAttempts
                   /\ lastCall[t].result = "failure" \/ lastCall[t].gate = "rejected"

\* C14 witness: a health check with an attempt the open breaker rejected and
\* an attempt the remote call failed has returned FALSE
C14_Witness ==
    /\ op[t] = "health_check"
    /\ pc[t] = "idle"
    /\ outcome[t] = Ret(FALSE)
    /\ stats[t].invokes >= 1
    /\ stats[t].invokes < stats[t].calls


\* the instance each prediction of a response was made for, in order
PredictedFor(resp) ==
    [i \in 1..Len(resp.predictions) |-> resp.predictions[i].prediction_for]

C16_LoneInstanceAsList ==
    [][\A k \in InstanceIds :
          /\ Predict(t, DictInput(k)) <=> Predict(t, ListInput(<<k>>))
          /\ Predict(t, DictInput(k)) => instances'[t] = <<k>>]_vars

\* C16 witness: a predict given the lone instance 2 has returned its response
C16_Witness ==
    /\ op[t] = "predict"
    /\ instances[t] = <<2>>
    /\ outcome[t].tag = "return"
    /\ outcome[t].value = MakePredictionRequest(Normalize(ListInput(<<2>>)))


\* the signals the classification looks for, in any letter case
QuotaSignals == {"quota", "Quota", "QUOTA", "429"}
UnavailableSignals == {"unavailable", "Unavailable", "UNAVAILABLE", "503"}

ExpectedKind(m) ==
    IF \E i \in 1..Len(m) : m[i] \in QuotaSignals THEN "QuotaExceededError"
    ELSE IF \E i \in 1..Len(m) : m[i] \in UnavailableSignals THEN "ModelUnavailableError"
    ELSE "PredictionError"

\* the message of the remote fault inside a classified failure
RawMessage(e) == SubSeq(e.msg, 3, Len(e.msg))

\* C17: a fault of the remote call is classified from its message into exactly
\* one kind: QuotaExceeded when it contains 'quota' (any case) or '429',
\* otherwise ModelUnavailable when it contains '503' or 'unavailable' (any
\* case), otherwise the generic PredictionError; quota wins when both signals
\* are present.
C17_FaultClassification ==
    lastCall[t].result = "failure" =>
        /\ RawMessage(lastCall[t].exc) \in FaultMessages
        /\ lastCall[t].exc.kind = ExpectedKind(RawMessage(lastCall[t].exc))
        /\ stats[t].last_exc = lastCall[t].exc

\* C17 witness: a fault carrying both signals was classified as quota exceeded
C17_Witness ==
    /\ lastCall[t].result = "failure"
    /\ RawMessage(lastCall[t].exc) = <<"QUOTA", "503">>
    /\ lastCall[t].exc.kind = "QuotaExceededError"


\* the wait the retry policy prescribes after failed attempt n:
\* min(max_wait, base_wait * 2^(n-1)) with base_wait = 1 and max_wait = 10
PrescribedWait(n) == LET w == 1 * 2 ^ (n - 1) IN IF w < 10 THEN w ELSE 10

\* C18: the wait after failed attempt n of one predict call is
\* min(10, 1 * 2^(n-1)) seconds: 1 after the first attempt, 2 after the
\* second; no wait exceeds 10, and no wait follows the last attempt.
C18_ExponentialBackoff ==
    /\ \A n \in 1..Len(stats[t].waits) :
          /\ stats[t].waits[n] = PrescribedWait(n)
          /\ stats[t].waits[n] <= 10
    /\ Len(stats[t].waits) <= MaxAttempts - 1
    /\ pc[t] = "wait" =>
          /\ Len(stats[t].waits) = attempt[t]
          /\ wake[t] - PrescribedWait(attempt[t]) \in 0..clock
    /\ (pc[t] = "idle" /\ outcome[t].tag = "raise") =>
          Len(stats[t].waits) = stats[t].calls - 1
    /\ \A n \in 1..(2 * MaxAttempts) :
          WaitExponential(n) = PrescribedWait(n) /\ WaitExponential(n) <= 10

\* C18 witness: a predict call that failed three times waited 1 s and then 2 s
\* and raised without a third wait
C18_Witness ==
    /\ op[t] = "predict"
    /\ pc[t] = "idle"
    /\ outcome[t].tag = "raise"
    /\ stats[t].calls = MaxAttempts
    /\ stats[t].waits = <<1, 2>>


\* C19: whenever the wrapped call fails in a call the breaker let through, the
\* breaker increments the failure counter, records the time of the failure and
\* raises that same fault to its caller unchanged; the fault is never
\* swallowed or replaced.
C19_FailurePropagates ==
    [][\A m \in FaultMessages :
          InvokeFail(t, m) =>
              /\ lastCall[t].gate = "passed"
              /\ failure_count' = failure_count + 1
              /\ last_failure_time' = clock
              /\ lastCall'[t].exc = ClassifyFault(m)
              /\ stats'[t].last_exc = ClassifyFault(m)
              /\ stats'[t].failures = stats[t].failures + 1
              /\ ~stats'[t].succeeded
              /\ pc'[t] = "wait" \/ outcome'[t] \in {Raise(RetryError(Failed(ClassifyFault(m)))),
                                                      Ret(FALSE)}]_vars

\* C19 witness: a quota fault of the remote call has just left the breaker
\* with the counter incremented and the time recorded
C19_Witness ==
    /\ lastCall[t].result = "failure"
    /\ lastCall[t].gate = "passed"
    /\ failure_count = lastCall[t].entry_count + 1
    /\ last_failure_time = clock
    /\ stats[t].last_exc.kind = "QuotaExceededError"
    /\ stats[t].last_exc = lastCall[t].exc


\* C20: with a single caller the breaker is HalfOpen only while the one trial
\* call is running: the wrapped call has been invoked once after the move from
\* Open, and its outcome moves the breaker to Closed or Open before
\* CircuitBreaker.call returns, so the breaker is never HalfOpen between calls.
C20_OneTrialPerHalfOpen ==
    /\ state = HALF_OPEN =>
          /\ pc[t] = "invoke"
          /\ lastCall[t].trial
          /\ lastCall[t].entry_state = OPEN
          /\ lastCall[t].result = "pending"
    /\ (lastCall[t].trial /\ lastCall[t].result = "success") =>
          state = CLOSED /\ failure_count = 0
    /\ (lastCall[t].trial /\ lastCall[t].result = "failure") =>
          state = OPEN /\ failure_count = lastCall[t].entry_count + 1

\* C20 witness: a trial call has failed and the breaker is Open again, the
\* caller being between two attempts
C20_Witness ==
    /\ lastCall[t].trial
    /\ lastCall[t].result = "failure"
    /\ state = OPEN
    /\ pc[t] = "wait"


\* C21: predict_batch_parallel starts one task per sub-batch, no task waits for
\* another (a created task can start and a running task can finish whatever
\* the others are doing), and it returns only when every task has finished:
\* never while a sub-batch call is still in flight.
C21_AwaitsAllTasks ==
    /\ Len(tasks) = Len(pbatches)
    /\ ppc = "gather" =>
          /\ presult.tag = "none"
          /\ \A i \in 1..Len(tasks) :
                /\ tasks[i].st = "created" => ENABLED TaskStart(i)
                /\ tasks[i].st = "running" => ENABLED TaskReturn(i)
    /\ ppc = "idle" =>
          /\ \A i \in 1..Len(tasks) : tasks[i].st \notin {"created", "running"}
          /\ Len(porder) = Len(tasks)
          /\ \A i \in 1..Len(tasks) : \E j \in 1..Len(porder) : porder[j] = i

\* C21 witness: three sub-batches finished in the reverse of their order, the
\* first of them failing last, and only then the call returned
C21_Witness ==
    /\ ppc = "idle"
    /\ presult.tag = "return"
    /\ Len(pbatches) = 3
    /\ porder = <<3, 2, 1>>
    /\ tasks[1].st = "raised"


\* C22: with a single caller and failure_threshold >= 1, between calls and
\* during them: Closed implies the failure counter is below failure_threshold;
\* Open implies the counter is at or above it and a last-failure time is
\* recorded; the counter is never negative.
C22_StateCounterInvariant ==
    /\ failure_threshold >= 1
    /\ failure_count >= 0
    /\ state = CLOSED => failure_count < failure_threshold
    /\ state = OPEN =>
          /\ failure_count >= failure_threshold
          /\ last_failure_time # NoTime
          /\ last_failure_time \in 0..clock

\* C22 witness: after a failed trial the breaker is Open with the counter
\* above the threshold
C22_Witness ==
    /\ state = OPEN
    /\ failure_count > failure_threshold
    /\ last_failure_time # NoTime
    /\ pc[t] = "idle"
    /\ lastCall[t].trial


\* C23: a call the Open breaker rejects leaves the state, the failure counter
\* and the last-failure time as they were, so rejections do not postpone
\* recovery: a call made when recovery_timeout or more has passed since the
\* last failure is admitted as the trial, however many were rejected before.
C23_RejectionChangesNothing ==
    [][BreakerCall(t) =>
          /\ lastCall'[t].gate = "rejected" =>
                /\ state = OPEN /\ state' = OPEN
                /\ failure_count' = failure_count
                /\ last_failure_time' = last_failure_time
                /\ stats'[t].invokes = stats[t].invokes
          /\ (state = OPEN /\ clock >= last_failure_time + recovery_timeout) =>
                /\ lastCall'[t].gate = "passed"
                /\ lastCall'[t].trial
                /\ state' = HALF_OPEN
                /\ pc'[t] = "invoke"]_vars

\* C23 witness: a predict call that found the breaker Open was rejected twice
\* and then, recovery_timeout having passed since the failure before them,
\* let through as the trial
C23_Witness ==
    /\ lastCall[t].trial
    /\ lastCall[t].gate = "passed"
    /\ stats[t].calls = 3
    /\ stats[t].invokes = 1
    /\ stats[t].failures = 2
    /\ lastCall[t].elapsed >= recovery_timeout


\* C24: a failed HalfOpen trial restarts the recovery window: it sets the
\* last-failure time to the time of the trial failure and reopens the breaker,
\* a call made less than recovery_timeout after it is rejected, and a trial is
\* let through only recovery_timeout or more after the trial before it.
C24_FailedTrialRestartsWindow ==
    [][/\ \A m \in FaultMessages :
            (InvokeFail(t, m) /\ lastCall[t].trial) =>
                /\ last_failure_time' = clock
                /\ last_failure_time' >= trial_at
                /\ state' = OPEN
       /\ BreakerCall(t) =>
            /\ (state = OPEN /\ trial_at # NoTime /\ last_failure_time >= trial_at
                   /\ clock - last_failure_time < recovery_timeout) =>
                  /\ lastCall'[t].gate = "rejected"
                  /\ trial_at' = trial_at
            /\ (lastCall'[t].trial /\ trial_at # NoTime) =>
                  /\ trial_at' = clock
                  /\ trial_at' - trial_at >= recovery_timeout]_vars

\* C24 witness: a call made less than recovery_timeout after a failed trial
\* has been rejected
C24_Witness ==
    /\ lastCall[t].gate = "rejected"
    /\ trial_at # NoTime
    /\ last_failure_time >= trial_at
    /\ lastCall[t].elapsed < recovery_timeout
    /\ lastCall[t].entry_count > failure_threshold
    /\ stats[t].invokes >= 1


\* C25: the breaker does not stay Open for ever: while time keeps advancing
\* and calls keep being made, an Open breaker eventually lets a trial call
\* through; a trial that succeeds leaves the breaker Closed with the failure
\* counter at 0, and a Closed breaker lets every call through.
C25_OpenEventuallyTries ==
    /\ (state = OPEN) ~> (state = HALF_OPEN /\ pc[t] = "invoke" /\ lastCall[t].trial)
    /\ [](lastCall[t].trial /\ lastCall[t].result = "success" =>
             state = CLOSED /\ failure_count = 0)
    /\ [][(BreakerCall(t) /\ state = CLOSED) =>
             (lastCall'[t].gate = "passed" /\ pc'[t] = "invoke")]_vars

\* C25 witness: after the window was exceeded many times over, a trial has
\* succeeded and a later call was let through the Closed breaker
C25_Witness ==
    /\ clock = MaxTime
    /\ trial_at # NoTime
    /\ trial_at >= last_failure_time
    /\ state = CLOSED
    /\ failure_count = 0
    /\ lastCall[t].entry_state = CLOSED
    /\ lastCall[t].gate = "passed"
    /\ ~lastCall[t].trial


\* C26: predict_batch never calls predict with an empty chunk: every chunk it
\* submits has between 1 and batch_size instances; given an empty list it
\* makes no predict call, leaves the breaker as it was and returns an empty
\* list of responses.
C26_NoEmptyChunk ==
    /\ [](op[t] = "predict_batch" =>
             /\ batch[t].batch_size >= 1
             /\ \A k \in 1..Len(issued[t]) :
                   Len(issued[t][k]) \in 1..batch[t].batch_size
             /\ pc[t] # "idle" => instances[t] # <<>>
             /\ batch[t].instances = <<>> =>
                   /\ issued[t] = <<>>
                   /\ pc[t] = "idle"
                   /\ outcome[t] = Ret(<<>>)
                   /\ stats[t].calls = 0
                   /\ lastCall[t] = NoCall)
    /\ [][\A b \in 1..MaxBatchSize :
             PredictBatch(t, <<>>, b) =>
                 /\ UNCHANGED breakerVars
                 /\ pc'[t] = "idle"
                 /\ outcome'[t] = Ret(<<>>)]_vars

\* C26 witness: predict_batch of an empty list has returned an empty list while
\* the breaker is Open, where any predict call would have been rejected
C26_Witness ==
    /\ op[t] = "predict_batch"
    /\ batch[t].instances = <<>>
    /\ outcome[t] = Ret(<<>>)
    /\ issued[t] = <<>>
    /\ state = OPEN
    /\ clock - last_failure_time < recovery_timeout


====
